---- MODULE Spec2Model ----
(***************************************************************************)
(* HomeDNS: authoritative resolver, record store, resolver chain and the   *)
(* JWT-authenticated REST front door, modelled from src/homedns.            *)
(*                                                                         *)
(* A DNS name is the sequence of its labels (the result of                  *)
(* name.split('.')); letter case is kept, so lower-casing is a real         *)
(* conversion.  The record table is the sequence of its rows in rowid       *)
(* order, which is the order SELECT returns them in.                        *)
(***************************************************************************)
EXTENDS Integers, Sequences, FiniteSets, TLC

VARIABLES
    table,      \* dns_records: sequence of rows (store.py:93-103)
    storeUp,    \* whether SqliteStorage.initialize() currently succeeds
    resp,       \* outcome of the DNS query or store call that just completed
    created,    \* the last A record created and not deleted or updated since
    registry,   \* JwtFileCredentials.config: subject -> entry
    certFile,   \* content of each subject's certificate file on disk
    authConf,   \* the no_auth / basic_auth / jwt_auth switches of the config
    http,       \* outcome of the last REST request at the authentication wrapper
    rest,       \* outcome of the last REST request that reached its handler
    regFile,    \* the subjects registry file on disk: subject -> entry
    fileTime,   \* getmtime of the registry file
    modified,   \* AbstractConfig._modify_time of the loaded registry
    admin,      \* outcome of the last call on JwtFileCredentials
    conn,       \* where a call of SqliteStorage.initialize() stands
    probes,     \* outcome of each probe that call has made, in order
    mutex,      \* SqliteStorage.mutex: 0 when free, else the thread holding it
    thread      \* per thread: the store call or handler it is running

vars == <<table, storeUp, resp, created, registry, certFile, authConf, http, rest,
          regFile, fileTime, modified, admin, conn, probes,
          mutex, thread>>
dnsVars == <<table, storeUp, resp, created>>
authVars == <<registry, certFile, authConf, http>>
apiVars == <<rest>>
adminVars == <<regFile, fileTime, modified, admin>>
openVars == <<conn, probes>>
threadVars == <<mutex, thread>>
sideVars == <<openVars, threadVars>>
moreVars == <<adminVars, sideVars>>

----------------------------------------------------------------------------
(* Bounds *)

MaxRows == 2

\* how many times the registry file is rewritten
MaxClock == 3

----------------------------------------------------------------------------
(* Names and their letter case *)

LowerLabel(l) ==
    CASE l = "HOST"    -> "host"
      [] l = "Host"    -> "host"
      [] l = "EXAMPLE" -> "example"
      [] l = "COM"     -> "com"
      [] OTHER         -> l

\* str.lower() on a dotted name: every label is lower-cased
Lower(n) == [i \in DOMAIN n |-> LowerLabel(n[i])]

HostName   == <<"host", "example", "com">>
HostMixed  == <<"Host", "example", "com">>
HostUpper  == <<"HOST", "EXAMPLE", "COM">>
WwwName    == <<"www", "example", "com">>
OtherName  == <<"x", "other", "net">>
ShortName  == <<"localhost">>
LanName    == <<"lan">>
PcLanName  == <<"pc", "lan">>

QueryNames == {HostName, HostMixed, HostUpper, WwwName, OtherName, ShortName,
               LanName, PcLanName}
LookupNames == {HostName, OtherName}
StoreNames == {HostName, HostUpper, WwwName, OtherName}
ApiNames == {HostName, HostUpper, OtherName, LanName}
AliasNames == {HostName, HostMixed}

\* textual address forms a client may send; "10.5" is inet_aton shorthand
AddrInputs == {"10.0.0.5", "10.5", "10.0.0.6"}
TTLs == {300}

\* the configuration handed to the resolver and to the REST API
soa_domains  == {<<"example", "com">>, <<"lan">>}
name_servers == <<"ns1.example.com", "ns2.example.com">>
default_ttl  == 3600

\* twisted.names.dns.QUERY_TYPES restricted to the types of this model
QUERY_TYPES == {"A", "NS", "CNAME", "SOA", "MX", "TXT"}
\* query types the resolver chain has a lookup method for
ChainTypes == QUERY_TYPES \cup {"AXFR"}
QTypes == {"A", "CNAME", "SOA", "NS", "TXT", "TYPE65", "AXFR"}

\* IRecordStorage.RECORD_MAP: query type -> record class name
RECORD_MAP ==
    [t \in {"A", "AAAA", "CNAME", "MX", "SOA", "NS"} |->
        CASE t = "A"     -> "Record_A"
          [] t = "AAAA"  -> "Record_AAAA"
          [] t = "CNAME" -> "Record_CNAME"
          [] t = "MX"    -> "Record_MX"
          [] t = "SOA"   -> "Record_SOA"
          [] t = "NS"    -> "Record_NS"]

----------------------------------------------------------------------------
(* Record store: SqliteStorage *)

NullName == <<>>
NullAddr == ""

\* str(ipaddress.ip_address(Record_A(address).address)): the canonical
\* dotted quad of whatever textual form inet_aton accepted
Canon(a) == IF a = "10.5" THEN "10.0.0.5" ELSE a

Row(type, fqdn, alias, address, ttl) ==
    [type |-> type, fqdn |-> fqdn, alias |-> alias, address |-> address, ttl |-> ttl]

\* the records a caller can hand to the store: Record_A(address, ttl),
\* Record_CNAME(name, ttl), and Record_NS(name, ttl), which the store rejects
Records ==
    [cls : {"Record_A"}, address : AddrInputs, name : {NullName}, ttl : TTLs]
    \cup [cls : {"Record_CNAME", "Record_NS"}, address : {NullAddr},
          name : AliasNames, ttl : TTLs]

\* SELECT ... WHERE fqdn = ? AND type in (...): rows in table order; an empty
\* record_types list leaves the type filter out
SelectRows(tbl, hostname, typeNames) ==
    SelectSeq(tbl, LAMBDA r : r.fqdn = hostname
                              /\ (typeNames = {} \/ r.type \in typeNames))

RECURSIVE Concat(_)
Concat(ss) == IF ss = <<>> THEN <<>> ELSE Head(ss) \o Concat(Tail(ss))

\* name_search without the CNAME chase
name_search_NoChase(tbl, up, hostname, record_types) ==
    IF ~up
    THEN [err |-> "OperationalError", rows |-> <<>>]
    ELSE IF \E t \in record_types : t \notin DOMAIN RECORD_MAP
    THEN [err |-> "DNSNotImplementedError", rows |-> <<>>]
    ELSE [err  |-> "none",
          rows |-> SelectRows(tbl, Lower(hostname),
                              {RECORD_MAP[t] : t \in record_types})]

\* name_search whose chase asks for every row of the alias, CNAME rows too
name_search_ChaseAll(tbl, up, hostname, record_types) ==
    IF ~up
    THEN [err |-> "OperationalError", rows |-> <<>>]
    ELSE IF \E t \in record_types : t \notin DOMAIN RECORD_MAP
    THEN [err |-> "DNSNotImplementedError", rows |-> <<>>]
    ELSE
      LET data == SelectRows(tbl, Lower(hostname),
                             {RECORD_MAP[t] : t \in record_types})
          cnames == SelectSeq(data, LAMBDA r : r.type = "Record_CNAME"
                                               /\ "A" \in record_types)
      IN  [err  |-> "none",
           rows |-> data \o Concat([i \in DOMAIN cnames |->
                                      SelectRows(tbl, Lower(cnames[i].alias), {})])]

RECURSIVE name_search(_, _, _, _)
name_search(tbl, up, hostname, record_types) ==
    IF ~up
    THEN [err |-> "OperationalError", rows |-> <<>>]
    ELSE IF \E t \in record_types : t \notin DOMAIN RECORD_MAP
    THEN [err |-> "DNSNotImplementedError", rows |-> <<>>]
    ELSE
      LET data == SelectRows(tbl, Lower(hostname),
                             {RECORD_MAP[t] : t \in record_types})
          cnames == SelectSeq(data, LAMBDA r : r.type = "Record_CNAME"
                                               /\ "A" \in record_types)
          chased == [i \in DOMAIN cnames |->
                        name_search(tbl, up, cnames[i].alias, {"A"})]
      IN  IF \E i \in DOMAIN chased : chased[i].err # "none"
          THEN [err  |-> chased[CHOOSE i \in DOMAIN chased :
                                   chased[i].err # "none"].err,
                rows |-> <<>>]
          ELSE [err  |-> "none",
                rows |-> data \o Concat([i \in DOMAIN chased |-> chased[i].rows])]

\* an insert that stores the owner name as the caller wrote it
create_record_AsGiven(tbl, up, record, fqdn) ==
    IF ~up
    THEN [err |-> "OperationalError", table |-> tbl]
    ELSE IF record.cls = "Record_A"
    THEN [err |-> "none",
          table |-> Append(tbl, Row("Record_A", fqdn, NullName,
                                    Canon(record.address), record.ttl))]
    ELSE IF record.cls = "Record_CNAME"
    THEN [err |-> "none",
          table |-> Append(tbl, Row("Record_CNAME", fqdn, record.name,
                                    NullAddr, record.ttl))]
    ELSE [err |-> "ValueError", table |-> tbl]

\* an insert that first removes the rows of the same type and name, which is
\* what _add does when called with replace=True
create_record_Replace(tbl, up, record, fqdn) ==
    LET kept == SelectSeq(tbl, LAMBDA r :
                    ~(r.type = record.cls /\ r.fqdn = Lower(fqdn)))
    IN  IF ~up
        THEN [err |-> "OperationalError", table |-> tbl]
        ELSE IF record.cls = "Record_A"
        THEN [err |-> "none",
              table |-> Append(kept, Row("Record_A", Lower(fqdn), NullName,
                                         Canon(record.address), record.ttl))]
        ELSE IF record.cls = "Record_CNAME"
        THEN [err |-> "none",
              table |-> Append(kept, Row("Record_CNAME", Lower(fqdn),
                                         record.name, NullAddr, record.ttl))]
        ELSE [err |-> "ValueError", table |-> tbl]

\* _add(record, fqdn, replace=False): the table after the call and how it ended
create_record(tbl, up, record, fqdn) ==
    IF ~up
    THEN [err |-> "OperationalError", table |-> tbl]
    ELSE IF record.cls = "Record_A"
    THEN [err |-> "none",
          table |-> Append(tbl, Row("Record_A", Lower(fqdn), NullName,
                                    Canon(record.address), record.ttl))]
    ELSE IF record.cls = "Record_CNAME"
    THEN [err |-> "none",
          table |-> Append(tbl, Row("Record_CNAME", Lower(fqdn), record.name,
                                    NullAddr, record.ttl))]
    ELSE [err |-> "ValueError", table |-> tbl]

\* UPDATE ... SET address, ttl WHERE type = ? AND fqdn = ?  for A records, with
\* the caller's fqdn as given.  The CNAME branch builds its arguments with
\* record.name.lower(), and record.name is a twisted dns.Name, which has no
\* lower(): the call ends in AttributeError before any statement is executed.
update_record(tbl, up, record, fqdn) ==
    IF ~up
    THEN [err |-> "OperationalError", table |-> tbl]
    ELSE IF record.cls = "Record_A"
    THEN [err |-> "none",
          table |-> [i \in DOMAIN tbl |->
                       IF tbl[i].type = "Record_A" /\ tbl[i].fqdn = fqdn
                       THEN [tbl[i] EXCEPT !.address = Canon(record.address),
                                           !.ttl = record.ttl]
                       ELSE tbl[i]]]
    ELSE IF record.cls = "Record_CNAME"
    THEN [err |-> "AttributeError", table |-> tbl]
    ELSE [err |-> "ValueError", table |-> tbl]

\* a delete that forgets the type in its WHERE clause
delete_record_by_hostname_AnyType(tbl, up, fqdn, record_type) ==
    IF record_type \notin QUERY_TYPES
    THEN [err |-> "ValueError", table |-> tbl, count |-> 0]
    ELSE IF ~up
    THEN [err |-> "OperationalError", table |-> tbl, count |-> 0]
    ELSE IF record_type \notin DOMAIN RECORD_MAP
    THEN [err |-> "KeyError", table |-> tbl, count |-> 0]
    ELSE
      LET hit(r) == r.fqdn = fqdn
      IN  [err   |-> "none",
           table |-> SelectSeq(tbl, LAMBDA r : ~hit(r)),
           count |-> Len(SelectSeq(tbl, hit))]

\* DELETE ... WHERE type = ? AND fqdn = ?, returning cursor.rowcount
delete_record_by_hostname(tbl, up, fqdn, record_type) ==
    IF record_type \notin QUERY_TYPES
    THEN [err |-> "ValueError", table |-> tbl, count |-> 0]
    ELSE IF ~up
    THEN [err |-> "OperationalError", table |-> tbl, count |-> 0]
    ELSE IF record_type \notin DOMAIN RECORD_MAP
    THEN [err |-> "KeyError", table |-> tbl, count |-> 0]
    ELSE
      LET hit(r) == r.type = RECORD_MAP[record_type] /\ r.fqdn = fqdn
      IN  [err   |-> "none",
           table |-> SelectSeq(tbl, LAMBDA r : ~hit(r)),
           count |-> Len(SelectSeq(tbl, hit))]

----------------------------------------------------------------------------
(* Authoritative resolver: HomeDnsResolver *)

NoSoa == <<>>

\* self._soa: the configured domains as label tuples
soa_set == soa_domains

\* the last two labels of the name, as written, looked up in self._soa
get_soa_domain(name) ==
    IF Len(name) < 2
    THEN NoSoa
    ELSE LET soa_tuple == SubSeq(name, Len(name) - 1, Len(name))
         IN  IF soa_tuple \in soa_set THEN soa_tuple ELSE NoSoa

RR(name, type, ttl, payload, auth) ==
    [name |-> name, type |-> type, ttl |-> ttl, payload |-> payload, auth |-> auth]

get_soa_record(domain, name_server, ttl) ==
    RR(domain, "SOA", ttl, name_server, TRUE)

get_ns_record(name_server, domain, ttl) ==
    RR(domain, "NS", ttl, name_server, FALSE)

\* one RRHeader per row the resolver knows how to answer with
RowAnswers(rows) ==
    LET known == SelectSeq(rows, LAMBDA r : r.type \in {"Record_A", "Record_CNAME"})
    IN  [i \in DOMAIN known |->
            LET r   == known[i]
                ttl == IF r.ttl = 0 THEN default_ttl ELSE r.ttl
            IN  IF r.type = "Record_A"
                THEN RR(r.fqdn, "A", ttl, r.address, TRUE)
                ELSE RR(r.fqdn, "CNAME", ttl, r.alias, TRUE)]

Outcome(kind, msg, answers, synth, storeRead) ==
    [kind |-> kind, msg |-> msg, answers |-> answers,
     synth |-> synth, storeRead |-> storeRead]

\* a resolver that asks the store first and says "not mine" only when the
\* store has nothing, as the first version of the resolver did
ResolverQuery_StoreFirst(tbl, up, name, qtype) ==
    LET results == name_search(tbl, up, name, {qtype})
    IN  IF qtype \notin QUERY_TYPES
        THEN Outcome("DNSNotImplementedError", "unsupported query type",
                     <<>>, FALSE, FALSE)
        ELSE IF results.err # "none"
        THEN Outcome("AuthoritativeDomainError", "storage engine error",
                     <<>>, FALSE, TRUE)
        ELSE IF RowAnswers(results.rows) = <<>>
        THEN Outcome("DomainError", "not authoritative", <<>>, FALSE, TRUE)
        ELSE Outcome("answer", "", RowAnswers(results.rows), FALSE, TRUE)

\* HomeDnsResolver.query: how the call ends, the answer section, and whether
\* it synthesized a record or called the store on the way
ResolverQuery(tbl, up, name, qtype) ==
    LET soa_domain  == get_soa_domain(name)
        query_types == IF qtype = "A" THEN {qtype, "CNAME"} ELSE {qtype}
        synth ==
            IF qtype = "SOA"
            THEN <<get_soa_record(soa_domain, name_servers[1], default_ttl)>>
            ELSE IF qtype = "NS"
            THEN [i \in DOMAIN name_servers |->
                     get_ns_record(name_servers[i], soa_domain, default_ttl)]
            ELSE <<>>
        results == name_search(tbl, up, name, query_types)
        answers == synth \o RowAnswers(results.rows)
    IN  IF soa_domain = NoSoa
        THEN Outcome("DomainError", "not authoritative", <<>>, FALSE, FALSE)
        ELSE IF qtype \notin QUERY_TYPES
        THEN Outcome("DNSNotImplementedError", "unsupported query type",
                     <<>>, synth # <<>>, FALSE)
        ELSE IF results.err # "none"
        THEN Outcome("AuthoritativeDomainError", "storage engine error",
                     <<>>, synth # <<>>, TRUE)
        ELSE IF answers = <<>>
        THEN Outcome("AuthoritativeDomainError", "no matching record",
                     <<>>, FALSE, TRUE)
        ELSE Outcome("answer", "", answers, synth # <<>>, TRUE)

----------------------------------------------------------------------------
(* Resolver chain: DNSServerFactory(authorities, caches, clients) *)

\* authorities + caches + clients, with caching and forwarding enabled
resolvers == <<"authority", "cache", "client">>

\* ResolverChain hands a failure to the next resolver when it is a DomainError
\* (or a subclass of it: DNSNotImplementedError is one), a TimeoutError or a
\* NotImplementedError; AuthoritativeDomainError is none of these
Trapped(kind) ==
    kind \in {"DomainError", "DNSNotImplementedError", "TimeoutError",
              "NotImplementedError"}

\* the resolvers the chain calls, in order, given how each would end
RECURSIVE CalledUpTo(_, _)
CalledUpTo(outs, i) ==
    IF i = Len(outs) \/ ~Trapped(outs[i]) THEN i ELSE CalledUpTo(outs, i + 1)

ChainQuery(tbl, up, name, qtype, cacheHit, fwdOk) ==
    LET auth == ResolverQuery(tbl, up, name, qtype)
        outs == <<auth.kind,
                  IF cacheHit THEN "answer" ELSE "DomainError",
                  IF fwdOk THEN "answer" ELSE "TimeoutError">>
        k    == CalledUpTo(outs, 1)
    IN  IF qtype \notin ChainTypes
        THEN \* no lookup method for the type: no resolver is called
             [auth |-> Outcome("skipped", "", <<>>, FALSE, FALSE),
              called |-> <<>>, final |-> "NotImplementedError"]
        ELSE [auth |-> auth, called |-> SubSeq(resolvers, 1, k), final |-> outs[k]]

----------------------------------------------------------------------------
(* Actions on the DNS side *)

Resp(op, name, rtype, addr, out, called, final, count) ==
    [op |-> op, name |-> name, rtype |-> rtype, addr |-> addr,
     kind |-> out.kind, msg |-> out.msg, answers |-> out.answers,
     synth |-> out.synth, storeRead |-> out.storeRead,
     called |-> called, final |-> final, count |-> count]

NoOutcome == Outcome("none", "", <<>>, FALSE, FALSE)
WriteOutcome(err) == Outcome(err, "", <<>>, FALSE, FALSE)

NoResp == Resp("none", NullName, "", NullAddr, NoOutcome, <<>>, "none", 0)
NoRecord == [name |-> NullName, addr |-> NullAddr]

\* a direct call of HomeDnsResolver.query
Query(name, qtype) ==
    /\ resp = NoResp
    /\ resp' = LET out == ResolverQuery(table, storeUp, name, qtype)
               IN  Resp("query", name, qtype, NullAddr, out,
                        <<"authority">>, out.kind, 0)
    /\ UNCHANGED <<table, storeUp, created, authVars, apiVars, moreVars>>

\* a query arriving at the listener and going through the resolver chain
Lookup(name, qtype, cacheHit, fwdOk) ==
    /\ resp = NoResp
    /\ resp' = LET c == ChainQuery(table, storeUp, name, qtype, cacheHit, fwdOk)
               IN  Resp("lookup", name, qtype, NullAddr, c.auth,
                        c.called, c.final, 0)
    /\ UNCHANGED <<table, storeUp, created, authVars, apiVars, moreVars>>

CreateRecord(record, fqdn) ==
    /\ resp = NoResp
    /\ Len(table) < MaxRows
    /\ LET r == create_record(table, storeUp, record, fqdn)
       IN  /\ table' = r.table
           /\ resp' = Resp("create", fqdn, record.cls, record.address,
                           WriteOutcome(r.err), <<>>, r.err, 0)
           /\ created' = IF r.err = "none" /\ record.cls = "Record_A"
                         THEN [name |-> fqdn, addr |-> record.address]
                         ELSE created
    /\ UNCHANGED <<storeUp, authVars, apiVars, moreVars>>

UpdateRecord(record, fqdn) ==
    /\ resp = NoResp
    /\ LET r == update_record(table, storeUp, record, fqdn)
       IN  /\ table' = r.table
           /\ resp' = Resp("update", fqdn, record.cls, record.address,
                           WriteOutcome(r.err), <<>>, r.err, 0)
    /\ created' = IF Lower(fqdn) = Lower(created.name) THEN NoRecord ELSE created
    /\ UNCHANGED <<storeUp, authVars, apiVars, moreVars>>

DeleteRecord(fqdn, record_type) ==
    /\ resp = NoResp
    /\ LET r == delete_record_by_hostname(table, storeUp, fqdn, record_type)
       IN  /\ table' = r.table
           /\ resp' = Resp("delete", fqdn, record_type, NullAddr,
                           WriteOutcome(r.err), <<>>, r.err, r.count)
    /\ created' = IF Lower(fqdn) = Lower(created.name) THEN NoRecord ELSE created
    /\ UNCHANGED <<storeUp, authVars, apiVars, moreVars>>

\* the caller takes the result of the call
Return ==
    /\ resp # NoResp
    /\ resp' = NoResp
    /\ UNCHANGED <<table, storeUp, created, authVars, apiVars, moreVars>>

\* the database file becoming locked or unusable, and usable again
StoreOutage ==
    /\ resp = NoResp
    /\ storeUp' = ~storeUp
    /\ UNCHANGED <<table, resp, created, authVars, apiVars, moreVars>>

InitDns ==
    /\ table = <<>>
    /\ storeUp = TRUE
    /\ resp = NoResp
    /\ created = NoRecord

----------------------------------------------------------------------------
(* REST front door: secure_resource, RestAuthWrapper, JWT credentials *)

Subjects == {"alice", "bob"}
Keys     == {"k_alice", "k_bob"}

\* a registry entry: absent, a full entry, or an entry without certificate_path
EntryKinds == {"absent", "entry", "nopath"}
\* a certificate file: missing, not a PEM public key, or the public key of a pair
FileKinds  == {"missing", "garbage"} \cup Keys

\* what jwt.decode can read from a Bearer value.  sub is a registered-style
\* subject name, absent ("NONE"), or a JSON array or object ("UNHASHABLE")
TokenSubs == Subjects \cup {"NONE", "UNHASHABLE"}
Tokens ==
    [parse : {TRUE}, sub : TokenSubs, signedBy : Keys \cup {"nobody"},
     aud : BOOLEAN, iss : BOOLEAN, exp : BOOLEAN, nbf : BOOLEAN]
    \cup [parse : {FALSE}, sub : {"NONE"}, signedBy : {"nobody"},
          aud : {FALSE}, iss : {FALSE}, exp : {FALSE}, nbf : {FALSE}]

NoToken == [parse |-> FALSE, sub |-> "NONE", signedBy |-> "nobody",
            aud |-> FALSE, iss |-> FALSE, exp |-> FALSE, nbf |-> FALSE]

Requests ==
    [scheme : {"none", "basic"}, token : {NoToken}]
    \cup [scheme : {"bearer"}, token : Tokens]

\* which resource the site serves: the bare klein resource, the JWT wrapper,
\* or none because setup raised (log.Logger.info on a Logger; no auth enabled)
secure_resource(conf) ==
    IF conf.no_auth THEN "open"
    ELSE IF conf.basic_auth THEN "AttributeError"
    ELSE IF conf.jwt_auth THEN "jwt"
    ELSE "RuntimeError"

\* twisted.cred.error.LoginFailed and its subclasses
LoginFailed(err) ==
    err \in {"InvalidSubject", "UnauthorizedLogin", "UnhandledCredentials"}

read_certificate(reg, files, subject_name) ==
    IF reg[subject_name] = "absent"
    THEN [err |-> "InvalidSubject", cert |-> "missing"]
    ELSE IF reg[subject_name] = "nopath"
    THEN [err |-> "InvalidSubject", cert |-> "missing"]
    ELSE IF files[subject_name] = "missing"
    THEN [err |-> "FileNotFoundError", cert |-> "missing"]
    ELSE [err |-> "none", cert |-> files[subject_name]]

\* self.config[subject] raises TypeError for an unhashable key and KeyError
\* for an unknown one; only KeyError becomes InvalidSubject
get_subject(reg, files, subject) ==
    IF subject = "UNHASHABLE"
    THEN [err |-> "TypeError", cert |-> "missing"]
    ELSE IF subject \notin DOMAIN reg \/ reg[subject] = "absent"
    THEN [err |-> "InvalidSubject", cert |-> "missing"]
    ELSE read_certificate(reg, files, subject)

\* JwtCredentialFactory.decode: the unverified payload names the subject whose
\* certificate goes into the credential
decode(reg, files, token) ==
    IF ~token.parse
    THEN \* the parse error is logged and `unverified` is then read unbound
         [err |-> "UnboundLocalError", secret |-> "missing", subject |-> "NONE"]
    ELSE LET subject == get_subject(reg, files, token.sub)
         IN  [err |-> subject.err, secret |-> subject.cert, subject |-> token.sub]

\* verification that forgets the audience
Verifies_NoAudience(token, public_key) ==
    /\ token.signedBy = public_key
    /\ token.iss /\ token.exp /\ token.nbf

\* jwt.decode(token, key, audience, issuer, algorithms, leeway)
Verifies(token, public_key) ==
    /\ token.signedBy = public_key
    /\ token.aud /\ token.iss /\ token.exp /\ token.nbf

\* JwtTokenChecker.requestAvatarId
requestAvatarId(token, cred) ==
    IF cred.secret \notin Keys
    THEN [err |-> "RuntimeError", avatar |-> "NONE"]
    ELSE IF ~Verifies(token, cred.secret)
    THEN [err |-> "UnauthorizedLogin", avatar |-> "NONE"]
    ELSE [err |-> "none", avatar |-> cred.subject]

\* HTTPAuthSessionWrapper._login and its callbacks: the wrapped resource on
\* success, 401 for a LoginFailed failure, 500 for any other
LoginStatus(err) ==
    IF err = "none" THEN "handler"
    ELSE IF LoginFailed(err) THEN "401"
    ELSE "500"

\* RestAuthWrapper._authorizedResource
AuthorizedResource(reg, files, req) ==
    IF req.scheme = "none"
    THEN LoginStatus("UnhandledCredentials")
    ELSE IF req.scheme # "bearer"
    THEN "401"
    ELSE LET cred == decode(reg, files, req.token)
         IN  IF LoginFailed(cred.err) THEN "401"
             ELSE IF cred.err # "none" THEN "500"
             ELSE LoginStatus(requestAvatarId(req.token, cred).err)

NoRequest == [scheme |-> "none", token |-> NoToken]
NoHttp == [req |-> NoRequest, status |-> "none"]

\* one HTTP request against the served resource
Request(req) ==
    /\ http = NoHttp
    /\ secure_resource(authConf) \in {"open", "jwt"}
    /\ http' = [req |-> req,
                status |-> IF secure_resource(authConf) = "open"
                           THEN "handler"
                           ELSE AuthorizedResource(registry, certFile, req)]
    /\ UNCHANGED <<registry, certFile, authConf, dnsVars, apiVars, moreVars>>

\* the response has been sent
Respond ==
    /\ http # NoHttp
    /\ http' = NoHttp
    /\ UNCHANGED <<registry, certFile, authConf, dnsVars, apiVars, moreVars>>

AuthConfs == [no_auth : BOOLEAN, basic_auth : BOOLEAN, jwt_auth : BOOLEAN]

InitAuth ==
    /\ registry \in [Subjects -> EntryKinds]
    /\ certFile \in [Subjects -> FileKinds]
    /\ authConf \in AuthConfs
    /\ http = NoHttp

\* the REST side at rest while the DNS side is explored, and the reverse
AuthIdle ==
    /\ registry = [s \in Subjects |-> "absent"]
    /\ certFile = [s \in Subjects |-> "missing"]
    /\ authConf = [no_auth |-> FALSE, basic_auth |-> FALSE, jwt_auth |-> TRUE]
    /\ http = NoHttp


----------------------------------------------------------------------------
(* Subjects registry: JwtFileCredentials over AbstractConfig *)

\* a config property that never looks at the file again
config_NoReload(mem, file, ftime, mtime) ==
    [mem |-> mem, modified |-> mtime, reloads |-> 0]

\* the config property: reload the file when its mtime is later than the one
\* of the loaded copy, then hand out the loaded copy
config(mem, file, ftime, mtime) ==
    IF ftime > mtime
    THEN [mem |-> file, modified |-> ftime, reloads |-> 1]
    ELSE [mem |-> mem, modified |-> mtime, reloads |-> 0]

\* AbstractConfig.update: rewrite the file from the loaded copy; open(path,
\* 'w') can fail, and then the file is as it was
update(mem, file, ftime, writeOk) ==
    IF writeOk
    THEN [err |-> "none", file |-> mem, ftime |-> ftime + 1]
    ELSE [err |-> "PermissionError", file |-> file, ftime |-> ftime]

\* the state a registry call leaves: loaded copy, file, certificate files,
\* times, result and number of reloads
Left(mem, file, files, ftime, mtime, result, reloads) ==
    [mem |-> mem, file |-> file, files |-> files, ftime |-> ftime,
     modified |-> mtime, result |-> result, reloads |-> reloads]

\* add_subject: write the certificate, enter the subject in the loaded copy,
\* rewrite the file; on a failed rewrite unlink the certificate and re-raise
add_subject(mem, file, files, ftime, mtime, sub, key, writeOk) ==
    LET cert_written == [files EXCEPT ![sub] = key]
        c    == config(mem, file, ftime, mtime)
        mem2 == [c.mem EXCEPT ![sub] = "entry"]
        u    == update(mem2, file, ftime, writeOk)
    IN  IF u.err = "none"
        THEN Left(mem2, u.file, cert_written, u.ftime, c.modified,
                  "none", c.reloads)
        ELSE Left(mem2, u.file, [cert_written EXCEPT ![sub] = "missing"],
                  u.ftime, c.modified, u.err, c.reloads)

\* remove_subject: drop the entry from the loaded copy, unlink the
\* certificate, rewrite the file
remove_subject(mem, file, files, ftime, mtime, sub, writeOk) ==
    LET c == config(mem, file, ftime, mtime)
    IN  IF c.mem[sub] = "absent"
        THEN Left(c.mem, file, files, ftime, c.modified,
                  "InvalidSubject", c.reloads)
        ELSE IF c.mem[sub] = "nopath"
        THEN Left(c.mem, file, files, ftime, c.modified,
                  "KeyError", c.reloads)
        ELSE LET mem2     == [c.mem EXCEPT ![sub] = "absent"]
                 unlinked == [files EXCEPT ![sub] = "missing"]
                 u        == update(mem2, file, ftime, writeOk)
             IN  Left(mem2, u.file, unlinked, u.ftime, c.modified,
                      u.err, c.reloads)

\* subject_exists: subject_name in self.config
subject_exists(mem, file, files, ftime, mtime, sub) ==
    LET c == config(mem, file, ftime, mtime)
    IN  Left(c.mem, file, files, ftime, c.modified,
             IF c.mem[sub] # "absent" THEN "True" ELSE "False", c.reloads)

\* get_subject through the config property: self.config[subject], then
\* read_certificate, which reads self.config again
registry_get_subject(mem, file, files, ftime, mtime, sub) ==
    LET c1 == config(mem, file, ftime, mtime)
        c2 == config(c1.mem, file, ftime, c1.modified)
    IN  IF c1.mem[sub] = "absent"
        THEN Left(c1.mem, file, files, ftime, c1.modified,
                  "InvalidSubject", c1.reloads)
        ELSE Left(c2.mem, file, files, ftime, c2.modified,
                  get_subject(c2.mem, files, sub).err,
                  c1.reloads + c2.reloads)

NoAdmin == [op |-> "none", sub |-> "none", result |-> "none", reloads |-> 0,
            newer |-> FALSE, hadCert |-> FALSE, hadEntry |-> FALSE,
            known |-> FALSE]

\* a call on the registry object runs to its end
Call(op, sub, l) ==
    /\ admin = NoAdmin /\ http = NoHttp
    /\ registry' = l.mem
    /\ regFile' = l.file
    /\ certFile' = l.files
    /\ fileTime' = l.ftime
    /\ modified' = l.modified
    /\ admin' = [op |-> op, sub |-> sub, result |-> l.result,
                 reloads |-> l.reloads, newer |-> fileTime > modified,
                 hadCert |-> certFile[sub] # "missing",
                 hadEntry |-> regFile[sub] # "absent",
                 known |-> registry[sub] # "absent"]
    /\ UNCHANGED <<authConf, http, dnsVars, apiVars, sideVars>>

AddSubject(sub, key, writeOk) ==
    /\ fileTime < MaxClock
    /\ Call("add_subject", sub,
            add_subject(registry, regFile, certFile, fileTime, modified,
                        sub, key, writeOk))

RemoveSubject(sub, writeOk) ==
    /\ fileTime < MaxClock
    /\ Call("remove_subject", sub,
            remove_subject(registry, regFile, certFile, fileTime, modified,
                           sub, writeOk))

SubjectExists(sub) ==
    Call("subject_exists", sub,
         subject_exists(registry, regFile, certFile, fileTime, modified, sub))

GetSubject(sub) ==
    Call("get_subject", sub,
         registry_get_subject(registry, regFile, certFile, fileTime, modified,
                              sub))

\* another process (the admin tool) rewrites the registry file and the
\* subject's certificate file; the file gets a later mtime
OtherProcessWrites(sub, entry, cert) ==
    /\ admin = NoAdmin /\ http = NoHttp
    /\ fileTime < MaxClock
    /\ regFile' = [regFile EXCEPT ![sub] = entry]
    /\ certFile' = [certFile EXCEPT ![sub] = cert]
    /\ fileTime' = fileTime + 1
    /\ UNCHANGED <<registry, modified, admin, authConf, http, dnsVars, apiVars, sideVars>>

\* the caller takes the result of the registry call
Done ==
    /\ admin # NoAdmin
    /\ admin' = NoAdmin
    /\ UNCHANGED <<regFile, fileTime, modified, authVars, dnsVars, apiVars, sideVars>>

\* the registry as loaded at start-up: the loaded copy is the file
AdminIdle ==
    /\ regFile = registry
    /\ fileTime = 1
    /\ modified = 1
    /\ admin = NoAdmin

----------------------------------------------------------------------------
(* REST API: DNSRestApi, the handlers behind the authentication wrapper *)

\* is_soa_domain: names of two labels or more are refused by the length test;
\* of a shorter name, domain[-2:] is the whole name
is_soa_domain(name) ==
    IF ~(Len(name) < 2)
    THEN FALSE
    ELSE name \in soa_set

\* what a handler leaves behind: the HTTP status, the table, and the body's
\* mode ("created" / "updated") and deleted count
Handled(status, tbl, mode, count) ==
    [status |-> status, table |-> tbl, mode |-> mode, count |-> count]

\* an exception leaving a handler is answered 500 by the web server
Raised(tbl) == Handled("500", tbl, "error", 0)

NotSoa(tbl) == Handled("400", tbl, "error", 0)

Record_A(address) == [cls |-> "Record_A", address |-> address,
                      name |-> NullName, ttl |-> 300]
Record_CNAME(alias) == [cls |-> "Record_CNAME", address |-> NullAddr,
                        name |-> alias, ttl |-> 300]

\* PUT /upsert/a/<hostname>
upsert_a_record(tbl, up, hostname, address) ==
    IF ~is_soa_domain(hostname)
    THEN NotSoa(tbl)
    ELSE LET result == name_search(tbl, up, hostname, {"A"})
         IN  IF result.err # "none"
             THEN Raised(tbl)
             ELSE IF result.rows # <<>>
             THEN LET u == update_record(tbl, up, Record_A(address), hostname)
                  IN  IF u.err # "none" THEN Raised(u.table)
                      ELSE Handled("200", u.table, "updated", 0)
             ELSE LET c == create_record(tbl, up, Record_A(address), hostname)
                  IN  IF c.err # "none" THEN Raised(c.table)
                      ELSE Handled("201", c.table, "created", 0)

\* PUT /update/a/<hostname>
update_a_record(tbl, up, hostname, address) ==
    IF ~is_soa_domain(hostname)
    THEN NotSoa(tbl)
    ELSE LET u == update_record(tbl, up, Record_A(address), hostname)
         IN  IF u.err # "none" THEN Raised(u.table)
             ELSE Handled("201", u.table, "success", 0)

\* POST /create/a/<hostname>
create_a_record(tbl, up, hostname, address) ==
    IF ~is_soa_domain(hostname)
    THEN NotSoa(tbl)
    ELSE LET c == create_record(tbl, up, Record_A(address), hostname)
         IN  IF c.err # "none" THEN Raised(c.table)
             ELSE Handled("201", c.table, "success", 0)

\* DELETE /hostname/a/<hostname>
delete_a_by_hostname(tbl, up, hostname) ==
    LET d == delete_record_by_hostname(tbl, up, hostname, "A")
    IN  IF d.err # "none" THEN Raised(d.table)
        ELSE IF d.count = 0
        THEN Handled("404", d.table, "deleted", 0)
        ELSE Handled("200", d.table, "deleted", d.count)

\* POST /create/cname/<hostname>
create_cname_record(tbl, up, hostname, alias) ==
    IF ~is_soa_domain(hostname)
    THEN NotSoa(tbl)
    ELSE LET c == create_record(tbl, up, Record_CNAME(alias), hostname)
         IN  IF c.err # "none" THEN Raised(c.table)
             ELSE Handled("201", c.table, "success", 0)

NoRest == [op |-> "none", name |-> NullName, addr |-> NullAddr,
           status |-> "none", mode |-> "none", count |-> 0, had |-> 0]

\* the number of A rows stored for the lower-cased name
RowsOfA(tbl, name) ==
    Len(SelectSeq(tbl, LAMBDA r : r.type = "Record_A" /\ r.fqdn = Lower(name)))

\* a request that passed authentication runs its handler to the end
Serve(op, hostname, address, h) ==
    /\ rest = NoRest /\ resp = NoResp
    /\ table' = h.table
    /\ rest' = [op |-> op, name |-> hostname, addr |-> address,
                status |-> h.status, mode |-> h.mode, count |-> h.count,
                had |-> RowsOfA(table, hostname)]
    /\ created' = IF Lower(hostname) = Lower(created.name)
                  THEN NoRecord ELSE created
    /\ UNCHANGED <<storeUp, resp, authVars, moreVars>>

UpsertA(hostname, address) ==
    /\ Len(table) < MaxRows
    /\ Serve("PUT /upsert/a", hostname, address,
             upsert_a_record(table, storeUp, hostname, address))

UpdateA(hostname, address) ==
    Serve("PUT /update/a", hostname, address,
          update_a_record(table, storeUp, hostname, address))

CreateA(hostname, address) ==
    /\ Len(table) < MaxRows
    /\ Serve("POST /create/a", hostname, address,
             create_a_record(table, storeUp, hostname, address))

DeleteA(hostname) ==
    Serve("DELETE /hostname/a", hostname, NullAddr,
          delete_a_by_hostname(table, storeUp, hostname))

CreateCname(hostname, alias) ==
    /\ Len(table) < MaxRows
    /\ Serve("POST /create/cname", hostname, NullAddr,
             create_cname_record(table, storeUp, hostname, alias))

\* the response has been written
Reply ==
    /\ rest # NoRest
    /\ rest' = NoRest
    /\ UNCHANGED <<dnsVars, authVars, moreVars>>

ApiIdle == rest = NoRest

----------------------------------------------------------------------------
(* Opening the database: SqliteStorage.initialize, probe by probe *)

MAX_RETRIES == 5

\* initialize() is entered: the connection object exists, nothing probed yet
Initialize ==
    /\ conn = "closed"
    /\ conn' = "probing"
    /\ probes' = <<>>
    /\ UNCHANGED <<dnsVars, authVars, apiVars, adminVars, threadVars>>

\* one pass of  for retries in range(MAX_RETRIES):  the probe statement either
\* runs or raises OperationalError; the handler re-raises on the last pass and
\* sleeps otherwise; nothing leaves the loop early
Probe ==
    /\ conn = "probing"
    /\ LET retries == Len(probes)
           ok      == storeUp
       IN  /\ probes' = Append(probes, ok)
           /\ conn' = IF ~ok /\ retries + 1 >= MAX_RETRIES
                      THEN "OperationalError"
                      ELSE IF retries + 1 = MAX_RETRIES
                      THEN "open"
                      ELSE "probing"
    /\ UNCHANGED <<dnsVars, authVars, apiVars, adminVars, threadVars>>

\* the caller is done with the connection, or has seen the error
Close ==
    /\ conn \in {"open", "OperationalError"}
    /\ conn' = "closed"
    /\ probes' = <<>>
    /\ UNCHANGED <<dnsVars, authVars, apiVars, adminVars, threadVars>>

OpenIdle ==
    /\ conn = "closed"
    /\ probes = <<>>

----------------------------------------------------------------------------
(* Store calls running on pool threads (threads.deferToThread), statement  *)
(* by statement where the mutex is concerned                               *)

Threads == {1, 2}

NoArg == [cls |-> "none", address |-> NullAddr, name |-> NullName, ttl |-> 0]

\* the query types HomeDnsResolver.query hands to name_search for an A query
SearchTypes == {"A", "CNAME"}

Range(f) == {f[i] : i \in DOMAIN f}

Idle ==
    [op |-> "none", call |-> "none", pc |-> "idle", fqdn |-> NullName,
     hostname |-> NullName, record_types |-> {}, record |-> NoArg,
     records |-> <<>>, cname_a_lookups |-> <<>>, chasing |-> FALSE,
     err |-> "none", status |-> "none", had |-> 0, views |-> {}]

\* a store method is entered: its first statement is self.initialize()
Enter(l, call, hostname, record_types, record) ==
    [l EXCEPT !.call = call, !.pc = "init", !.hostname = hostname,
              !.record_types = record_types, !.record = record]

\* cursor.execute(SELECT ... WHERE fqdn = ? AND type in (...)); fetchall()
fetchall(tbl, up, hostname, record_types) ==
    IF ~up
    THEN [err |-> "OperationalError", table |-> tbl, rows |-> <<>>]
    ELSE [err |-> "none", table |-> tbl,
          rows |-> SelectRows(tbl, Lower(hostname),
                              {RECORD_MAP[t] : t \in record_types})]

\* address_search: SELECT ... WHERE address = ?
fetch_address(tbl, up, address) ==
    IF ~up
    THEN [err |-> "OperationalError", table |-> tbl, rows |-> <<>>]
    ELSE [err |-> "none", table |-> tbl,
          rows |-> SelectSeq(tbl, LAMBDA r : r.address = address)]

\* the statements of the with self.mutex block of the running store method
Block(l, tbl, up) ==
    IF l.call = "name_search"
    THEN fetchall(tbl, up, l.hostname, l.record_types)
    ELSE IF l.call = "address_search"
    THEN fetch_address(tbl, up, l.record.address)
    ELSE IF l.call = "create_record"
    THEN [rows |-> <<>>] @@ create_record(tbl, up, l.record, l.hostname)
    ELSE IF l.call = "update_record"
    THEN [rows |-> <<>>] @@ update_record(tbl, up, l.record, l.hostname)
    ELSE LET d == delete_record_by_hostname(tbl, up, l.hostname,
                                            CHOOSE t \in l.record_types : TRUE)
         IN  [err |-> d.err, table |-> d.table, rows |-> <<>>]

\* an exception leaves the store method, its callers and the handler
Raise(l, err) ==
    [l EXCEPT !.pc = "done", !.err = err, !.records = <<>>,
              !.cname_a_lookups = <<>>,
              !.status = IF l.op = "upsert_a_record" THEN "500" ELSE "none"]

\* what the thread does after the with block of its store method was left
\* with the fetched rows: the row loop of name_search and its chase, the
\* TypeError of address_search, the next store call of the upsert handler
Continue(l, data) ==
    IF l.call = "name_search"
    THEN LET records == l.records \o data
             cnames  == SelectSeq(data, LAMBDA r : r.type = "Record_CNAME"
                                                   /\ "A" \in l.record_types)
             lookups == (IF l.chasing THEN Tail(l.cname_a_lookups) ELSE <<>>)
                        \o [i \in DOMAIN cnames |-> cnames[i].alias]
             m       == [l EXCEPT !.records = records,
                                  !.cname_a_lookups = lookups]
         IN  IF lookups # <<>>
             THEN Enter([m EXCEPT !.chasing = TRUE],
                        "name_search", Head(lookups), {"A"}, NoArg)
             ELSE IF l.op = "upsert_a_record"
             THEN Enter([m EXCEPT !.chasing = FALSE],
                        IF records # <<>> THEN "update_record"
                                          ELSE "create_record",
                        l.fqdn, {}, l.record)
             ELSE [m EXCEPT !.pc = "done", !.chasing = FALSE]
    ELSE IF l.call = "address_search"
    THEN IF data # <<>> THEN Raise(l, "TypeError") ELSE [l EXCEPT !.pc = "done"]
    ELSE IF l.op = "upsert_a_record"
    THEN [l EXCEPT !.pc = "done",
                   !.status = IF l.call = "update_record" THEN "200" ELSE "201"]
    ELSE [l EXCEPT !.pc = "done"]

\* the mutex after the with block of a store method is left and the thread
\* goes on as l: the chase of name_search starts once the block has been left
with_exit_AfterChase(t, l) ==
    IF l.chasing /\ l.pc = "init" THEN t ELSE 0

with_exit(t, l) ==
    0

\* the rows a name_search for n would return from table tbl, as a set
View(tbl, n) == Range(name_search(tbl, TRUE, n, SearchTypes).rows)

\* calls that may still insert a row
Inserting ==
    {u \in Threads : /\ thread[u].op \in {"create_record", "upsert_a_record"}
                     /\ thread[u].pc # "done"}

Start(t, l) ==
    /\ thread[t] = Idle
    /\ thread' = [thread EXCEPT ![t] = l]
    /\ UNCHANGED <<mutex, dnsVars, authVars, apiVars, adminVars, openVars>>

\* HomeDnsResolver.query for an A record: deferToThread(store.name_search)
StartSearch(t, n) ==
    Start(t, Enter([Idle EXCEPT !.op = "name_search", !.fqdn = n,
                                !.views = {View(table, n)}],
                   "name_search", n, SearchTypes, NoArg))

StartAddressSearch(t, address) ==
    Start(t, Enter([Idle EXCEPT !.op = "address_search"],
                   "address_search", NullName, {},
                   [NoArg EXCEPT !.address = address]))

StartCreate(t, record, fqdn) ==
    /\ Len(table) + Cardinality(Inserting) < MaxRows
    /\ Start(t, Enter([Idle EXCEPT !.op = "create_record", !.fqdn = fqdn],
                      "create_record", fqdn, {}, record))

StartUpdate(t, record, fqdn) ==
    Start(t, Enter([Idle EXCEPT !.op = "update_record", !.fqdn = fqdn],
                   "update_record", fqdn, {}, record))

StartDelete(t, fqdn, record_type) ==
    Start(t, Enter([Idle EXCEPT !.op = "delete_record_by_hostname",
                                !.fqdn = fqdn],
                   "delete_record_by_hostname", fqdn, {record_type}, NoArg))

\* PUT /upsert/a/<hostname> up to its first await
StartUpsert(t, hostname, address) ==
    /\ Len(table) + Cardinality(Inserting) < MaxRows
    /\ LET l == [Idle EXCEPT !.op = "upsert_a_record", !.fqdn = hostname,
                             !.record = Record_A(address),
                             !.had = RowsOfA(table, hostname)]
       IN  Start(t, IF ~is_soa_domain(hostname)
                    THEN [l EXCEPT !.pc = "done", !.status = "400"]
                    ELSE Enter(l, "name_search", hostname, {"A"},
                               Record_A(address)))

\* with self.mutex: entered, in initialize() or in the store method itself
Acquire(t) ==
    /\ thread[t].pc \in {"init", "ready"}
    /\ mutex = 0
    /\ mutex' = t
    /\ thread' = [thread EXCEPT ![t].pc = IF @ = "init" THEN "probing" ELSE "sql"]
    /\ UNCHANGED <<dnsVars, authVars, apiVars, adminVars, openVars>>

\* initialize() inside its with block: returns conn or raises; either way the
\* block is left
Probed(t) ==
    /\ thread[t].pc = "probing"
    /\ mutex' = 0
    /\ thread' = [thread EXCEPT ![t] = IF storeUp
                                       THEN [@ EXCEPT !.pc = "ready"]
                                       ELSE Raise(@, "OperationalError")]
    /\ UNCHANGED <<dnsVars, authVars, apiVars, adminVars, openVars>>

\* the with block of the store method runs and is left, by its end or by an
\* exception; searches in progress on other threads go on over the new table
Execute(t) ==
    /\ thread[t].pc = "sql"
    /\ LET l == thread[t]
           b == Block(l, table, storeUp)
           n == IF b.err # "none" THEN Raise(l, b.err) ELSE Continue(l, b.rows)
       IN  /\ table' = b.table
           /\ mutex' = with_exit(t, n)
           /\ thread' =
                [u \in Threads |->
                    IF u = t THEN n
                    ELSE IF thread[u].op = "name_search" /\ thread[u].pc # "done"
                    THEN [thread[u] EXCEPT
                            !.views = @ \cup {View(b.table, thread[u].fqdn)}]
                    ELSE thread[u]]
    /\ UNCHANGED <<storeUp, resp, created, authVars, apiVars, adminVars, openVars>>

\* the deferred fires: the caller has the result or the failure
Finish(t) ==
    /\ thread[t].pc = "done"
    /\ thread' = [thread EXCEPT ![t] = Idle]
    /\ UNCHANGED <<mutex, dnsVars, authVars, apiVars, adminVars, openVars>>

ThreadsIdle ==
    /\ mutex = 0
    /\ thread = [t \in Threads |-> Idle]

----------------------------------------------------------------------------
(* Specifications *)

Init == InitDns /\ AuthIdle /\ ApiIdle /\ AdminIdle /\ OpenIdle /\ ThreadsIdle

Next ==
    \/ \E n \in QueryNames, t \in QTypes : Query(n, t)
    \/ \E n \in LookupNames, t \in QTypes, hit \in BOOLEAN, ok \in BOOLEAN :
          Lookup(n, t, hit, ok)
    \/ \E r \in Records, n \in StoreNames : CreateRecord(r, n)
    \/ \E r \in Records, n \in StoreNames : UpdateRecord(r, n)
    \/ \E n \in StoreNames, t \in QTypes : DeleteRecord(n, t)
    \/ StoreOutage
    \/ Return

Spec == Init /\ [][Next]_vars

InitRest ==
    InitDns /\ InitAuth /\ ApiIdle /\ AdminIdle /\ OpenIdle /\ ThreadsIdle

NextRest ==
    \/ \E req \in Requests : Request(req)
    \/ Respond

SpecAuth == InitRest /\ [][NextRest]_vars

\* the REST handlers and direct store calls working on one table
ApiAddrs == {"10.0.0.5", "10.0.0.6"}

NextApi ==
    \/ \E n \in ApiNames, a \in ApiAddrs : UpsertA(n, a)
    \/ \E n \in ApiNames, a \in ApiAddrs : UpdateA(n, a)
    \/ \E n \in ApiNames, a \in ApiAddrs : CreateA(n, a)
    \/ \E n \in ApiNames : DeleteA(n)
    \/ \E n \in ApiNames, t \in AliasNames : CreateCname(n, t)
    \/ Reply
    \/ ApiIdle /\ \E r \in Records, n \in ApiNames : CreateRecord(r, n)
    \/ ApiIdle /\ \E n \in ApiNames, t \in QTypes : DeleteRecord(n, t)
    \/ ApiIdle /\ StoreOutage
    \/ ApiIdle /\ Return

SpecApi == Init /\ [][NextApi]_vars

\* the registry object in the server, with the admin tool writing beside it
NextReg ==
    \/ \E s \in Subjects, k \in Keys, ok \in BOOLEAN : AddSubject(s, k, ok)
    \/ \E s \in Subjects, ok \in BOOLEAN : RemoveSubject(s, ok)
    \/ \E s \in Subjects : SubjectExists(s)
    \/ \E s \in Subjects : GetSubject(s)
    \/ \E s \in Subjects, e \in EntryKinds, f \in FileKinds :
          OtherProcessWrites(s, e, f)
    \/ Done

SpecReg == Init /\ [][NextReg]_vars

\* one caller opening the store while another process locks and unlocks the
\* database file
NextOpen ==
    \/ Initialize
    \/ Probe
    \/ Close
    \/ StoreOutage

SpecOpen == Init /\ [][NextOpen]_vars

\* the DNS resolver and the REST handlers sharing the store through the
\* thread pool
ThreadNames == {HostName, WwwName}

Step(t) ==
    \/ Acquire(t)
    \/ Probed(t)
    \/ Execute(t)
    \/ Finish(t)

NextThreads ==
    \/ \E t \in Threads, n \in ThreadNames : StartSearch(t, n)
    \/ \E t \in Threads : StartAddressSearch(t, "10.0.0.5")
    \/ \E t \in Threads :
          \/ StartCreate(t, Record_A("10.0.0.5"), HostName)
          \/ StartCreate(t, Record_CNAME(HostName), WwwName)
    \/ \E t \in Threads : StartUpdate(t, Record_A("10.0.0.5"), HostName)
    \/ \E t \in Threads, n \in ThreadNames, ty \in SearchTypes :
          StartDelete(t, n, ty)
    \/ \E t \in Threads, n \in {LanName, HostName} :
          StartUpsert(t, n, "10.0.0.5")
    \/ \E t \in Threads : Step(t)
    \/ StoreOutage

SpecThreads == Init /\ [][NextThreads]_vars

\* the store methods alone, called from any thread, under a fair scheduler:
\* a thread that can run its next statement does so, and a thread waiting for
\* the mutex gets it if it is free again and again
NextLock ==
    \/ \E t \in Threads : StartSearch(t, WwwName)
    \/ \E t \in Threads : StartAddressSearch(t, "10.0.0.5")
    \/ \E t \in Threads :
          \/ StartCreate(t, Record_CNAME(HostName), WwwName)
    \/ \E t \in Threads : StartUpdate(t, Record_CNAME(HostName), WwwName)
    \/ \E t \in Threads : StartDelete(t, WwwName, "CNAME")
    \/ \E t \in Threads : Step(t)
    \/ StoreOutage

Fairness ==
    \A t \in Threads :
        /\ SF_vars(Acquire(t))
        /\ WF_vars(Probed(t) \/ Execute(t))

SpecFair == Init /\ [][NextLock]_vars /\ Fairness

----------------------------------------------------------------------------
(* What the specification means by "inside a configured SOA domain":       *)
(* the lower-cased name has a configured domain as a suffix of labels      *)

IsSuffix(d, n) ==
    /\ Len(d) <= Len(n)
    /\ SubSeq(n, Len(n) - Len(d) + 1, Len(n)) = d

InsideSoa(n) == \E d \in soa_domains : IsSuffix(Lower(d), Lower(n))

\* the longest configured suffix of the lower-cased name
MatchedSoa(n) ==
    CHOOSE d \in soa_domains :
        /\ IsSuffix(Lower(d), Lower(n))
        /\ \A e \in soa_domains : IsSuffix(Lower(e), Lower(n)) => Len(e) <= Len(d)

\* the query types the specification lists as supported
SupportedTypes == {"A", "AAAA", "CNAME", "MX", "NS", "SOA"}

\* the call of the authoritative resolver that just ended, directly or as
\* the first stage of the chain
AuthoritativeCall ==
    \/ resp.op = "query"
    \/ resp.op = "lookup" /\ resp.called # <<>>

----------------------------------------------------------------------------
(* Claims about the resolver, the store and the chain (Spec) *)

\* C1: once create_record(Record_A, n) has completed for a name n inside a
\* configured SOA domain, an A query for n started afterwards, with no delete
\* (and here also no update) of n in between and the store readable, returns
\* an answer section holding an A RR for n with the created address.
C1_ReadAfterWrite ==
    ( /\ resp.op = "query" /\ resp.rtype = "A"
      /\ created # NoRecord /\ resp.name = created.name
      /\ InsideSoa(resp.name) /\ storeUp )
    => /\ resp.kind = "answer"
       /\ \E i \in DOMAIN resp.answers :
             /\ resp.answers[i].type = "A"
             /\ resp.answers[i].name = Lower(resp.name)
             /\ resp.answers[i].payload = Canon(created.addr)

\* C2: a query whose owner name is not inside any configured SOA domain ends
\* in DomainError (NotAuthoritative), whatever the type and the table, with
\* no store read and no synthesized record before it.
C2_OutsideIsNotAuthoritative ==
    (AuthoritativeCall /\ ~InsideSoa(resp.name))
    => /\ resp.kind = "DomainError"
       /\ ~resp.storeRead
       /\ ~resp.synth
       /\ resp.answers = <<>>

C2_Witness ==
    /\ resp.op = "query" /\ resp.name = OtherName /\ resp.rtype = "A"
    /\ resp.kind = "DomainError"
    /\ \E i \in DOMAIN table : table[i].fqdn = OtherName /\ table[i].type = "Record_A"

\* C3: the chain calls a stage after the authoritative resolver only when the
\* authoritative resolver signalled NotAuthoritative (DomainError itself); an
\* answer, AuthoritativeDomainError or DNSNotImplementedError from it is final.
C3_OnlyNotAuthoritativeForwards ==
    (resp.op = "lookup" /\ Len(resp.called) > 1)
    => /\ resp.kind = "DomainError"
       /\ ~InsideSoa(resp.name)

\* C4: a query for a name whose lower-cased form lies inside a configured SOA
\* domain never ends in DomainError (NotAuthoritative), whatever its letter case.
C4_AuthorityIgnoresCase ==
    (resp.op = "query" /\ InsideSoa(resp.name)) => resp.kind # "DomainError"

\* C5: a query for a name the resolver is authoritative for, with a type other
\* than A, AAAA, CNAME, MX, NS, SOA, ends in DNSNotImplementedError.
C5_UnsupportedTypeIsNotImplemented ==
    ( /\ resp.op = "query"
      /\ get_soa_domain(resp.name) # NoSoa
      /\ resp.rtype \notin SupportedTypes )
    => resp.kind = "DNSNotImplementedError"

\* C6: an SOA query for a name inside a configured SOA domain returns exactly
\* one RR, of type SOA, owned by the matched SOA domain, with the first
\* configured name server as mname (the store being readable).
C6_SoaAnswer ==
    ( /\ resp.op = "query" /\ resp.rtype = "SOA"
      /\ InsideSoa(resp.name) /\ storeUp )
    => /\ resp.kind = "answer"
       /\ Len(resp.answers) = 1
       /\ resp.answers[1].type = "SOA"
       /\ resp.answers[1].name = MatchedSoa(resp.name)
       /\ resp.answers[1].payload = name_servers[1]

\* the A rows stored for the target of a CNAME, in table order
TargetRows(t) ==
    SelectSeq(table, LAMBDA r : r.type = "Record_A" /\ r.fqdn = Lower(t))

----------------------------------------------------------------------------
(* Claims about the REST front door (SpecAuth) *)

JwtMode == ~authConf.no_auth /\ secure_resource(authConf) = "jwt"

\* the subject is a key of the registry
Registered(sub) == sub \in Subjects /\ registry[sub] # "absent"

\* C8: with no_auth disabled and JWT auth in force, a request reaches a handler
\* only if it carries a Bearer token that parses, names a registered subject
\* whose certificate file holds a public key, is signed by exactly that key and
\* passes the audience, issuer, exp and nbf checks.
C8_HandlerOnlyWhenVerified ==
    (http.status = "handler" /\ ~authConf.no_auth /\ authConf.jwt_auth)
    => LET tok == http.req.token
       IN  /\ http.req.scheme = "bearer"
           /\ tok.parse
           /\ Registered(tok.sub)
           /\ registry[tok.sub] = "entry"
           /\ certFile[tok.sub] \in Keys
           /\ tok.signedBy = certFile[tok.sub]
           /\ tok.aud /\ tok.iss /\ tok.exp /\ tok.nbf

C8_Witness ==
    /\ http.status = "handler" /\ ~authConf.no_auth /\ authConf.jwt_auth
    /\ http.req.scheme = "bearer"
    /\ http.req.token.sub = "alice"
    /\ certFile["bob"] \in Keys /\ registry["bob"] = "entry"

\* C9: a Bearer token (a JWT that parses) whose sub is not a key of the
\* registry, a token without sub included, is answered 401.
C9_UnknownSubjectIs401 ==
    ( /\ JwtMode /\ http.status # "none"
      /\ http.req.scheme = "bearer" /\ http.req.token.parse
      /\ ~Registered(http.req.token.sub) )
    => http.status = "401"

\* C10: every authentication failure of a Bearer request is answered 401: a
\* value that is no JWT, a bad signature or bad aud/iss/exp/nbf, a registered
\* subject whose certificate file is missing or holds no loadable public key.
C10_AuthFailureIs401 ==
    LET tok == http.req.token
    IN  ( /\ JwtMode /\ http.status # "none"
          /\ http.req.scheme = "bearer"
          /\ \/ ~tok.parse
             \/ /\ tok.sub \in Subjects /\ registry[tok.sub] = "entry"
                /\ \/ certFile[tok.sub] \notin Keys
                   \/ tok.signedBy # certFile[tok.sub]
                   \/ ~(tok.aud /\ tok.iss /\ tok.exp /\ tok.nbf) )
        => http.status = "401"

\* C11: a rejected Bearer request gets the same status, 401, whether or not the
\* token's sub is in the registry and whether or not its certificate file is
\* there: changing only the registry entry and the file of that subject never
\* changes the status of a rejected request.
C11_SubjectExistenceNotDisclosed ==
    ( /\ JwtMode /\ http.status \notin {"none", "handler"}
      /\ http.req.scheme = "bearer" /\ http.req.token.parse
      /\ http.req.token.sub \in Subjects )
    => \A e \in EntryKinds, f \in FileKinds :
          LET sub   == http.req.token.sub
              other == AuthorizedResource([registry EXCEPT ![sub] = e],
                                          [certFile EXCEPT ![sub] = f],
                                          http.req)
          IN  other # "handler" => (http.status = "401" /\ other = "401")

----------------------------------------------------------------------------
(* Claims about the REST handlers (SpecApi) *)

MutatingOps == {"POST /create/a", "PUT /update/a", "PUT /upsert/a",
                "DELETE /hostname/a", "POST /create/cname"}

\* C12: a mutating endpoint called with an owner name outside every configured
\* SOA domain answers 400 and leaves the record table as it was (the store
\* being usable).
C12_OutsideSoaRefused ==
    [][ ( /\ rest = NoRest /\ rest' # NoRest
          /\ rest'.op \in MutatingOps
          /\ ~InsideSoa(rest'.name) /\ storeUp )
        => (rest'.status = "400" /\ table' = table) ]_vars

\* C13: POST /create/a/{name} for a name inside a configured SOA domain, with a
\* valid address and the store usable, answers 201 and inserts one A row for
\* the name with that address (the row a later GET lists).
C13_CreateInsideSoa ==
    (rest.op = "POST /create/a" /\ InsideSoa(rest.name) /\ storeUp)
    => /\ rest.status = "201"
       /\ RowsOfA(table, rest.name) = rest.had + 1
       /\ \E i \in DOMAIN table :
             /\ table[i].type = "Record_A"
             /\ table[i].fqdn = Lower(rest.name)
             /\ table[i].address = Canon(rest.addr)

\* the A rows stored for the lower-cased name
ARowsOf(name) ==
    SelectSeq(table, LAMBDA r : r.type = "Record_A" /\ r.fqdn = Lower(name))

\* C14: PUT /upsert/a/{name} for a name inside a SOA domain (store usable):
\* with no A row for the name it answers 201 and leaves exactly one A row with
\* the address; repeated with one A row there, it answers 200 with
\* updated:true and leaves that single row, with the address, and no second.
C14_UpsertIdempotent ==
    ( /\ rest.op = "PUT /upsert/a" /\ InsideSoa(rest.name) /\ storeUp
      /\ rest.had <= 1 )
    => /\ rest.status = IF rest.had = 0 THEN "201" ELSE "200"
       /\ rest.mode = IF rest.had = 0 THEN "created" ELSE "updated"
       /\ Len(ARowsOf(rest.name)) = 1
       /\ ARowsOf(rest.name)[1].address = Canon(rest.addr)

\* C15: PUT /update/a/{name} for a name inside a SOA domain (store usable)
\* answers 404 when the table held no A row for the name, and a success status
\* only when it held at least one.
C15_UpdateMissingIs404 ==
    (rest.op = "PUT /update/a" /\ InsideSoa(rest.name) /\ storeUp)
    => /\ rest.had = 0 => rest.status = "404"
       /\ rest.status \in {"200", "201"} => rest.had >= 1

----------------------------------------------------------------------------
(* Claims about the store's write operations (Spec) *)

\* the query type under which a record class is deleted
KindOf(x) == IF x.cls = "Record_A" THEN "A" ELSE "CNAME"

\* C17: from every table, for every record x of a kind the store accepts and
\* every owner name n in any letter case, create_record(x, n) followed by
\* delete_record_by_hostname(n, kind(x)) gives back the table as it was before
\* the create.
C17_CreateDeleteRoundTrip ==
    storeUp
    => \A x \in Records, n \in StoreNames :
          LET c == create_record(table, storeUp, x, n)
          IN  c.err = "none"
              => delete_record_by_hostname(c.table, storeUp, n, KindOf(x)).table
                 = table

\* C18: every row of the record table has an fqdn equal to its own lower-cased
\* form, after any sequence of create, update and delete calls with owner
\* names in any letter case.
C18_FqdnLowerCase ==
    \A i \in DOMAIN table : table[i].fqdn = Lower(table[i].fqdn)

C18_Witness ==
    /\ resp.op = "create" /\ resp.kind = "none"
    /\ resp.name = HostUpper
    /\ \E i \in DOMAIN table : table[i].fqdn = HostName

\* C19: update_record (store usable, record of a kind it handles) never
\* changes the number of rows, and when the table holds no row of the record's
\* type, so that no row matches its key, it changes nothing and returns
\* without an error.
C19_UpdateNeverInserts ==
    [][ ( /\ resp = NoResp /\ resp' # NoResp
          /\ resp'.op = "update" /\ storeUp
          /\ resp'.rtype \in {"Record_A", "Record_CNAME"} )
        => /\ Len(table') = Len(table)
           /\ (\A i \in DOMAIN table : table[i].type # resp'.rtype)
              => (table' = table /\ resp'.kind = "none") ]_vars

\* C20: a create_record that returns adds exactly one row, for the lower-cased
\* name and the record's type, after the rows already there, and leaves those
\* unchanged, also when rows of the same type and name exist; so k creates
\* for one (type, name) leave k rows for it.
C20_CreateAddsOneRow ==
    [][ ( /\ resp = NoResp /\ resp' # NoResp
          /\ resp'.op = "create" /\ resp'.kind = "none" )
        => /\ Len(table') = Len(table) + 1
           /\ SubSeq(table', 1, Len(table)) = table
           /\ table'[Len(table')].type = resp'.rtype
           /\ table'[Len(table')].fqdn = Lower(resp'.name) ]_vars

C20_Witness ==
    /\ resp.op = "create" /\ resp.kind = "none"
    /\ Len(table) = MaxRows
    /\ \A i \in DOMAIN table :
          /\ table[i].type = resp.rtype
          /\ table[i].fqdn = Lower(resp.name)

----------------------------------------------------------------------------
(* Claims about the subjects registry (SpecReg) *)

\* what subject_exists(s) would answer now
ExistsView(s) ==
    subject_exists(registry, regFile, certFile, fileTime, modified, s).result
    = "True"

\* C21: after add_subject(s) has returned or raised (a failed rewrite of the
\* registry file included), the certificate file of s exists exactly when s is
\* an entry of the registry file and exactly when subject_exists(s) says so;
\* after a failed add of a subject that was not registered, s is in neither.
C21_AddAllOrNothing ==
    admin.op = "add_subject"
    => LET s == admin.sub
       IN  /\ (certFile[s] # "missing") <=> (regFile[s] # "absent")
           /\ (regFile[s] # "absent") <=> ExistsView(s)
           /\ (admin.result # "none" /\ ~admin.hadEntry /\ ~admin.known)
              => (regFile[s] = "absent" /\ ~ExistsView(s))

\* C22: remove_subject(s) unlinks the certificate file of s only after the
\* registry file has been rewritten without s: when the certificate file was
\* there before the call and is gone after it, the rewrite succeeded and the
\* file no longer lists s.
C22_UnlinkAfterRewrite ==
    ( /\ admin.op = "remove_subject" /\ admin.hadCert
      /\ certFile[admin.sub] = "missing" )
    => (admin.result = "none" /\ regFile[admin.sub] = "absent")

\* C27: an access through subject_exists or get_subject made when the registry
\* file has a later mtime than the loaded copy reloads the file exactly once
\* and answers from its contents: a subject no longer in the file is rejected,
\* a subject now in the file (with its certificate file) is accepted; an access
\* made when the file is not newer reloads nothing.
C27_HotReload ==
    admin.op \in {"subject_exists", "get_subject"}
    => LET s == admin.sub
       IN  /\ admin.reloads = IF admin.newer THEN 1 ELSE 0
           /\ admin.newer
              => /\ registry = regFile
                 /\ modified = fileTime
                 /\ admin.op = "subject_exists"
                    => (admin.result = "True" <=> regFile[s] # "absent")
                 /\ admin.op = "get_subject"
                    => /\ regFile[s] = "absent"
                          => admin.result = "InvalidSubject"
                       /\ (regFile[s] = "entry" /\ certFile[s] # "missing")
                          => admin.result = "none"

C27_Witness ==
    /\ admin.op = "get_subject" /\ admin.newer
    /\ admin.known
    /\ regFile[admin.sub] = "absent"
    /\ admin.result = "InvalidSubject"

----------------------------------------------------------------------------
(* Further claims about the resolver and the store (Spec) *)

\* C25: for an authoritative name the failure for "no matching record" and the
\* failure for "the store call raised" are never of the same error kind: when
\* a query has just failed because the store call raised, no query that finds
\* no matching record in the readable store fails with that kind.
C25_FailuresDistinguishable ==
    ( /\ AuthoritativeCall /\ resp.storeRead
      /\ resp.msg = "storage engine error" )
    => \A n \in QueryNames, t \in QTypes :
          LET o == ResolverQuery(table, TRUE, n, t)
          IN  o.msg = "no matching record" => o.kind # resp.kind

\* C26: for every configured SOA domain d, of one, two or more labels, and
\* every queried name equal to d or ending in "." + d (written in the case of
\* the configuration), get_soa_domain returns the longest configured suffix
\* and the resolver does not answer NotAuthoritative.
C26_SoaAnyLabelCount ==
    ( /\ AuthoritativeCall /\ InsideSoa(resp.name)
      /\ resp.name = Lower(resp.name) )
    => /\ get_soa_domain(resp.name) = MatchedSoa(resp.name)
       /\ resp.kind # "DomainError"

\* the rows stored under a name, of the given row types, in table order
DirectRows(n, types) == SelectRows(table, Lower(n), types)

\* the A rows stored under the aliases of the given CNAME rows
OneHop(cnames) ==
    Concat([i \in DOMAIN cnames |->
               DirectRows(cnames[i].alias, {"Record_A"})])

\* C28: name_search returns for every table content, CNAME rows forming a
\* cycle or a chain included, and follows one CNAME hop at most: an A query is
\* answered from the A and CNAME rows of the queried name followed by the A
\* rows of each alias and nothing else (no CNAME row of an alias, no row two
\* hops away); a CNAME query is answered from the CNAME rows of the name only.
C28_OneHop ==
    ( /\ AuthoritativeCall /\ resp.storeRead /\ storeUp
      /\ resp.rtype \in {"A", "CNAME"} )
    => LET direct == DirectRows(resp.name,
                                IF resp.rtype = "A"
                                THEN {"Record_A", "Record_CNAME"}
                                ELSE {"Record_CNAME"})
           cnames == SelectSeq(direct, LAMBDA r : r.type = "Record_CNAME")
       IN  /\ resp.kind \in {"answer", "AuthoritativeDomainError"}
           /\ resp.answers
              = RowAnswers(direct \o (IF resp.rtype = "A"
                                      THEN OneHop(cnames) ELSE <<>>))

\* an A query for a name whose CNAME row points at a name that has a CNAME row
\* of its own
C28_Witness ==
    /\ resp.op = "query" /\ resp.rtype = "A" /\ resp.kind = "answer"
    /\ \E i, j \in DOMAIN table :
          /\ i # j
          /\ table[i].type = "Record_CNAME" /\ table[i].fqdn = Lower(resp.name)
          /\ table[j].type = "Record_CNAME"
          /\ table[j].fqdn = Lower(table[i].alias)

----------------------------------------------------------------------------
(* Claims about opening the store (SpecOpen) *)

\* C24: opening the store makes at most 5 probes; it stops probing as soon as
\* one probe has succeeded, and it fails only when all 5 probes have failed, so
\* a failed probe after a successful one never makes the open fail.
C24_OpenRetries ==
    /\ Len(probes) <= MAX_RETRIES
    /\ conn = "probing" => \A i \in DOMAIN probes : ~probes[i]
    /\ conn = "OperationalError"
       => /\ Len(probes) = MAX_RETRIES
          /\ \A i \in DOMAIN probes : ~probes[i]

----------------------------------------------------------------------------
(* Claims about concurrent use of the store (SpecThreads) *)

\* C23: the rows a DNS A query is answered from, the chase of a CNAME
\* included, are the rows the same search returns on one single table that
\* existed between the start of the search and its end, whatever writes ran
\* beside it.
C23_NoTornRead ==
    \A t \in Threads :
        ( /\ thread[t].op = "name_search" /\ thread[t].pc = "done"
          /\ thread[t].err = "none" )
        => Range(thread[t].records) \in thread[t].views

\* C30: when PUT /upsert/a requests for one name, each begun while the table
\* held no A row for the name, have all been answered 200 or 201, the table
\* holds exactly one A row for the name.
C30_UpsertOnce ==
    \A t, u \in Threads :
        ( /\ t # u
          /\ \A w \in {t, u} :
                /\ thread[w].op = "upsert_a_record" /\ thread[w].pc = "done"
                /\ thread[w].status \in {"200", "201"}
                /\ thread[w].had = 0
          /\ thread[t].fqdn = thread[u].fqdn )
        => RowsOfA(table, thread[t].fqdn) = 1

\* no thread asks for the mutex while it holds it, and none holds it once its
\* call has returned or raised
MutexDiscipline ==
    \A t \in Threads :
        thread[t].pc \in {"init", "ready", "done", "idle"} => mutex # t

\* C29: no store call asks for the non-reentrant mutex while holding it, each
\* gives it back on every way out, raised errors included, and so under a fair
\* scheduler every store call begun by any thread returns or raises in the end.
C29_NeverBlocks ==
    /\ []MutexDiscipline
    /\ \A t \in Threads : (thread[t].pc # "idle") ~> (thread[t].pc = "done")

\* a search is about to chase a CNAME while another thread waits for the mutex
C29_Witness ==
    \E t, u \in Threads :
        /\ t # u
        /\ thread[t].call = "name_search" /\ thread[t].chasing
        /\ thread[t].pc = "init" /\ mutex = 0
        /\ thread[u].pc \in {"init", "ready"}

====
